---- MODULE Spec2Model ----
(***************************************************************************)
(* Model of the release browser / installer of thebino/github_assets.      *)
(*                                                                         *)
(* src/src/main.rs   App, StatefulList, ReleaseItem, the control loop      *)
(* src/src/github.rs Release, Asset, download_asset                        *)
(*                                                                         *)
(* The control loop App::run is one sequential loop: draw, block on one    *)
(* input event, dispatch it, then run the install pipeline inline when     *)
(* in_progress is Some.  pc is the position inside that loop.  The calls   *)
(* to the registry and to the device are steps of their own, each with     *)
(* the results the external collaborator can return.                       *)
(*                                                                         *)
(* Not modelled: tag_name and body (only rendered), ListState's scroll     *)
(* offset (unselect saves and restores it, nothing else in src/ reads it). *)
(***************************************************************************)
EXTENDS Integers, Sequences, FiniteSets, TLC

\* ------------------------------------------------------------------ bounds
\* Longest release catalog explored.
MaxItems == 2

\* Width of usize in the model.  The code only ever compares the wrapped
\* value len - 1 against an index, so any width whose maximum exceeds
\* MaxItems behaves like the real 64 bits.
UsizeBits == 8

\* ------------------------------------------------------------- constants
\* Option::None of an Option<usize> (state.selected(), last_selected,
\* in_progress).
NoneIdx == -1

\* The "no apk asset" sentinel stored in ReleaseItem::asset_id.
NoAsset == -1

UsizeMod == 2 ^ UsizeBits

\* ---------------------------------------------------------------- catalog
\* Asset names are sequences of characters so that ends_with is computed.
ApkSuffix == <<".", "a", "p", "k">>

NameAppApk == <<"a", ".", "a", "p", "k">>
NameBApk == <<"b", ".", "a", "p", "k">>
NameTxt == <<"n", ".", "t", "x", "t">>
NameApkSha == <<"a", ".", "a", "p", "k", ".", "s">>

\* github::Asset (browser_download_url is never read).
Asset(n, i) == [name |-> n, id |-> i]

\* github::Release reduced to its assets.
ReleaseSet ==
  { <<>>,
    << Asset(NameApkSha, 4), Asset(NameTxt, 3) >>,
    << Asset(NameTxt, 3), Asset(NameAppApk, 5), Asset(NameBApk, 6) >> }

\* The catalogs fetch_releases can return, up to MaxItems releases.
Catalogs == UNION { [1..n -> ReleaseSet] : n \in 0..MaxItems }

\* str::ends_with
EndsWith(s, suffix) ==
  /\ Len(s) >= Len(suffix)
  /\ SubSeq(s, Len(s) - Len(suffix) + 1, Len(s)) = suffix

\* The asset lookup taking the last .apk asset instead of the first.
FindApk_Last(assets) ==
  LET hits == { k \in 1..Len(assets) : EndsWith(assets[k].name, ApkSuffix) }
  IN IF hits = {} THEN NoAsset
     ELSE assets[CHOOSE k \in hits : \A m \in hits : k >= m].id

\* release.assets.iter().find(|a| a.name.ends_with(".apk")) -> asset.id
\* or -1.
FindApk(assets) ==
  LET hits == { k \in 1..Len(assets) : EndsWith(assets[k].name, ApkSuffix) }
  IN IF hits = {} THEN NoAsset
     ELSE assets[CHOOSE k \in hits : \A m \in hits : k <= m].id

\* impl From<&Release> for ReleaseItem
ReleaseItemFrom(release) ==
  [asset_id |-> FindApk(release), status |-> "Open"]

VARIABLES
  releases,       \* the catalog handed to App::new (immutable)
  items,          \* StatefulList::items, 1-based here, index i is items[i+1]
  selected,       \* StatefulList::state.selected()
  last_selected,  \* StatefulList::last_selected
  in_progress,    \* StatefulList::in_progress
  pc,             \* position in App::run
  lastKey,        \* the input event dispatched in this loop iteration
  runIndex,       \* the index the current / last pipeline run read
  calls,          \* external calls made since the last input event
  result,         \* how the pipeline run of this iteration ended
  nextStart,      \* the selection before the current streak of next()
  nextCount,      \* how many next() calls in a row, the streak's length
  selBefore,      \* the selection the last dispatched event found
  unselFrom,      \* the selection the event before lastKey cleared, when
                  \* that event was an unselect
  recent,         \* the last Some(i) selection an earlier event found
  activations     \* per item, the parity of the activates issued on it

vars == <<releases, items, selected, last_selected, in_progress, pc,
          lastKey, runIndex, calls, result, nextStart, nextCount,
          selBefore, unselFrom, recent, activations>>

ItemsLen == Len(items)

\* items[i] of the Vec, 0-based.
ItemAt(i) == items[i + 1]

\* App::new
Init ==
  /\ releases \in Catalogs
  /\ items = [k \in 1..Len(releases) |-> ReleaseItemFrom(releases[k])]
  /\ selected = NoneIdx
  /\ last_selected = NoneIdx
  /\ in_progress = NoneIdx
  /\ pc = "draw"
  /\ lastKey = "none"
  /\ runIndex = NoneIdx
  /\ calls = <<>>
  /\ result = "none"
  /\ nextStart = NoneIdx
  /\ nextCount = 0
  /\ selBefore = NoneIdx
  /\ unselFrom = NoneIdx
  /\ recent = NoneIdx
  /\ activations = [k \in 1..Len(releases) |-> 0]

\* ------------------------------------------------------- integer helpers
\* usize subtraction as a build without overflow checks computes it.
WrappingSub(a, b) == (a - b) % UsizeMod

\* usize subtraction panics in a build with overflow checks when a < b.
SubOverflows(a, b) == a < b

\* ------------------------------------------------------ StatefulList ops
\* next() with the wrap test written `>` for `>=`: the last row steps to
\* len() instead of 0.
NextIndex_OffByOne(sel, last, len1) ==
  IF sel # NoneIdx
    THEN IF sel > len1 THEN 0 ELSE sel + 1
    ELSE IF last # NoneIdx THEN last ELSE 0

\* next() that forgets last_selected: with no selection it starts at 0.
NextIndex_IgnoreLast(sel, last, len1) ==
  IF sel # NoneIdx
    THEN IF sel >= len1 THEN 0 ELSE sel + 1
    ELSE 0

\* The index StatefulList::next selects (len1 is the computed len() - 1).
NextIndex(sel, last, len1) ==
  IF sel # NoneIdx
    THEN IF sel >= len1 THEN 0 ELSE sel + 1
    ELSE IF last # NoneIdx THEN last ELSE 0

\* previous() without the wrap: row 0 stays on row 0.
PreviousIndex_NoWrap(sel, last, len) ==
  IF sel # NoneIdx
    THEN IF sel = 0 THEN 0 ELSE sel - 1
    ELSE IF last # NoneIdx THEN last ELSE 0

\* The index StatefulList::previous selects; len() - 1 is computed only in
\* the branch i == 0.
PreviousIndex(sel, last, len) ==
  IF sel # NoneIdx
    THEN IF sel = 0 THEN WrappingSub(len, 1) ELSE sel - 1
    ELSE IF last # NoneIdx THEN last ELSE 0

\* flip_status that marks the item instead of toggling it.
Flip_SetInstalled(status) == "Installed"

\* Status flipped by App::flip_status.
Flip(status) == IF status = "Installed" THEN "Open" ELSE "Installed"

\* What every dispatched input event does to the bookkeeping of the loop
\* iteration: the event is remembered and the pipeline log starts empty.
\* A streak of next() calls on a set cursor is counted up to len(); any
\* other event ends it.  The selection the event finds, the event before
\* it and the activates each item has received are remembered as well.
Dispatched(key) ==
  /\ lastKey' = key
  /\ calls' = <<>>
  /\ result' = "none"
  /\ IF key = "next" /\ selected # NoneIdx
       THEN IF nextCount = 0 \/ nextCount >= ItemsLen
              THEN nextStart' = selected /\ nextCount' = 1
              ELSE nextStart' = nextStart /\ nextCount' = nextCount + 1
       ELSE nextStart' = NoneIdx /\ nextCount' = 0
  /\ selBefore' = selected
  /\ unselFrom' = IF lastKey = "unselect" THEN selBefore ELSE NoneIdx
  /\ recent' = IF selected # NoneIdx THEN selected ELSE recent
  /\ activations' =
       IF key = "activate" /\ selected # NoneIdx /\ selected < ItemsLen
         THEN [activations EXCEPT ![selected + 1] = 1 - @]
         ELSE activations

\* A panic unwinds out of App::run: the process is gone, nothing else moves.
Panic(key) ==
  /\ pc' = "panicked"
  /\ Dispatched(key)
  /\ UNCHANGED <<releases, items, selected, last_selected, in_progress, runIndex>>

\* Char('q') | Esc => return Ok(())
Quit ==
  /\ pc = "read"
  /\ pc' = "quit"
  /\ Dispatched("quit")
  /\ UNCHANGED <<releases, items, selected, last_selected, in_progress, runIndex>>

\* event::read()? fails: run returns the io error.
ReadError ==
  /\ pc = "read"
  /\ pc' = "io_error"
  /\ UNCHANGED <<releases, items, selected, last_selected, in_progress,
                 lastKey, nextStart, nextCount,
                 selBefore, unselFrom, recent, activations, runIndex, calls, result>>

\* Char('h') | Left => self.items.unselect()
unselect ==
  /\ pc = "read"
  /\ last_selected' = selected
  /\ selected' = NoneIdx
  /\ pc' = "resolve"
  /\ Dispatched("unselect")
  /\ UNCHANGED <<releases, items, in_progress, runIndex>>

\* Char('j') | Down => self.items.next()
next ==
  /\ pc = "read"
  /\ \E checked \in BOOLEAN :
       IF selected # NoneIdx /\ SubOverflows(ItemsLen, 1) /\ checked
         THEN Panic("next")
         ELSE /\ selected' = NextIndex(selected, last_selected,
                                       WrappingSub(ItemsLen, 1))
              /\ pc' = "resolve"
              /\ Dispatched("next")
              /\ UNCHANGED <<releases, items, last_selected, in_progress,
                             runIndex>>

\* Char('k') | Up => self.items.previous()
previous ==
  /\ pc = "read"
  /\ \E checked \in BOOLEAN :
       IF selected = 0 /\ SubOverflows(ItemsLen, 1) /\ checked
         THEN Panic("previous")
         ELSE /\ selected' = PreviousIndex(selected, last_selected, ItemsLen)
              /\ pc' = "resolve"
              /\ Dispatched("previous")
              /\ UNCHANGED <<releases, items, last_selected, in_progress,
                             runIndex>>

\* Char('l') | Right | Enter => self.flip_status()
flip_status ==
  /\ pc = "read"
  /\ IF selected = NoneIdx
       THEN /\ pc' = "resolve"
            /\ UNCHANGED <<items, in_progress>>
       ELSE IF selected >= ItemsLen
         THEN /\ pc' = "panicked"   \* items[i] out of bounds
              /\ in_progress' = selected
              /\ UNCHANGED items
         ELSE /\ pc' = "resolve"
              /\ in_progress' = selected
              /\ items' = [items EXCEPT ![selected + 1].status = Flip(@)]
  /\ Dispatched("activate")
  /\ UNCHANGED <<releases, selected, last_selected, runIndex>>

\* Char('g') => self.go_top()
go_top ==
  /\ pc = "read"
  /\ selected' = 0
  /\ pc' = "resolve"
  /\ Dispatched("go_top")
  /\ UNCHANGED <<releases, items, last_selected, in_progress, runIndex>>

\* Char('G') => self.go_bottom()
go_bottom ==
  /\ pc = "read"
  /\ \E checked \in BOOLEAN :
       IF SubOverflows(ItemsLen, 1) /\ checked
         THEN Panic("go_bottom")
         ELSE /\ selected' = WrappingSub(ItemsLen, 1)
              /\ pc' = "resolve"
              /\ Dispatched("go_bottom")
              /\ UNCHANGED <<releases, items, last_selected, in_progress,
                             runIndex>>

\* Any other key, a key event that is not a press, or a non-key event.
Ignored ==
  /\ pc = "read"
  /\ pc' = "resolve"
  /\ Dispatched("ignored")
  /\ UNCHANGED <<releases, items, selected, last_selected, in_progress,
                 runIndex>>

\* ---------------------------------------------------------------- drawing
\* What rendering the List widget with &mut state leaves in
\* state.selected(): list widgets that clamp reset a selection on an empty
\* list and pull an out-of-range one back to the last row.
ClampSelected(sel, len) ==
  IF sel = NoneIdx THEN NoneIdx
  ELSE IF len = 0 THEN NoneIdx
  ELSE IF sel >= len THEN len - 1
  ELSE sel

\* App::draw -> render: render_releases, then render_info, which indexes
\* items[i] with the selection and panics when it is out of range.  Whether
\* the list widget has clamped the selection before that depends on the
\* widget library the build links, so both outcomes are possible.
draw ==
  /\ pc = "draw"
  /\ \E clamps \in BOOLEAN :
       LET sel == IF clamps THEN ClampSelected(selected, ItemsLen)
                  ELSE selected
       IN /\ selected' = sel
          /\ pc' = IF sel # NoneIdx /\ sel >= ItemsLen THEN "panicked"
                   ELSE "read"
  /\ UNCHANGED <<releases, items, last_selected, in_progress,
                 lastKey, nextStart, nextCount,
                 selBefore, unselFrom, recent, activations, runIndex, calls, result>>

\* terminal.draw(..)? fails: run returns the io error.
DrawError ==
  /\ pc = "draw"
  /\ pc' = "io_error"
  /\ UNCHANGED <<releases, items, selected, last_selected, in_progress,
                 lastKey, nextStart, nextCount,
                 selBefore, unselFrom, recent, activations, runIndex, calls, result>>

\* --------------------------------------------------------------- pipeline
\* The results each external call can come back with.
DownloadResults == {"ok", "transport_err", "create_err", "write_err"}
ConnectResults == {"ok", "connect_err"}
OpenResults == {"ok", "open_err"}
SendResults == {"ok", "push_err"}
InstallResults == {"ok", "install_err"}

\* The run without the sentinel test: every pending item is downloaded.
AfterResolve_NoSentinelTest(asset_id) == "download"

\* if asset_id == -1 { println!(..) } else { .. download_asset(..) }
AfterResolve(asset_id) == IF asset_id = NoAsset THEN "draw" ELSE "download"

\* The run with the download result ignored: a transport error is reported
\* nowhere and the run goes on to the device.
AfterDownload_IgnoreError(r) ==
  CASE r = "ok" -> "connect"
    [] r = "transport_err" -> "connect"
    [] OTHER -> "panicked"

\* download_asset: `?` hands a transport error back to run, which prints it
\* (match arm Err); File::create and io::copy are .expect()ed.
AfterDownload(r) ==
  CASE r = "ok" -> "connect"
    [] r = "transport_err" -> "draw"
    [] OTHER -> "panicked"

\* AdbTcpConnection::new(..).unwrap()
AfterConnect(r) == IF r = "ok" THEN "open" ELSE "panicked"

\* File::open(..).unwrap()
AfterOpen(r) == IF r = "ok" THEN "send" ELSE "panicked"

\* The run that takes a successful push for the end: no install command.
AfterSend_SkipInstall(r) == "draw"

\* match send_result { Ok(_) => shell_command.., Err(error) => println!(..) }
AfterSend(r) == IF r = "ok" THEN "install" ELSE "draw"

\* The Err arm without its assignment: a failed install keeps the slot.
AfterInstall_KeepOnError(r, pending) ==
  IF r = "ok" THEN NoneIdx ELSE pending

\* in_progress after match install_result: both arms assign None.
AfterInstall(r, pending) == NoneIdx

\* if let Some(index) = self.items.in_progress { .. }
\* The three environment lookups that follow the sentinel test repeat the
\* ones main made before the loop; nothing changes the environment in
\* between, so they succeed.
Resolve ==
  /\ pc = "resolve"
  /\ IF in_progress = NoneIdx
       THEN /\ pc' = "draw"
            /\ UNCHANGED <<runIndex, result>>
       ELSE /\ runIndex' = in_progress
            /\ IF in_progress >= ItemsLen
                 THEN /\ pc' = "panicked"   \* items[index] out of bounds
                      /\ UNCHANGED result
                 ELSE /\ pc' = AfterResolve(ItemAt(in_progress).asset_id)
                      /\ result' = IF pc' = "draw" THEN "no_apk" ELSE result
  /\ UNCHANGED <<releases, items, selected, last_selected, in_progress,
                 lastKey, nextStart, nextCount,
                 selBefore, unselFrom, recent, activations, calls>>

\* download_asset(&owner, &repo, &token, asset_id, apk_path).await
download_asset ==
  /\ pc = "download"
  /\ \E r \in DownloadResults :
       /\ pc' = AfterDownload(r)
       /\ result' = IF r = "ok" THEN result ELSE r
  /\ calls' = Append(calls, "download")
  /\ UNCHANGED <<releases, items, selected, last_selected, in_progress,
                 lastKey, nextStart, nextCount,
                 selBefore, unselFrom, recent, activations, runIndex>>

\* AdbTcpConnection::new(Ipv4Addr::from([127, 0, 0, 1]), 5037).unwrap()
Connect ==
  /\ pc = "connect"
  /\ \E r \in ConnectResults :
       /\ pc' = AfterConnect(r)
       /\ result' = IF r = "ok" THEN result ELSE r
  /\ calls' = Append(calls, "connect")
  /\ UNCHANGED <<releases, items, selected, last_selected, in_progress,
                 lastKey, nextStart, nextCount,
                 selBefore, unselFrom, recent, activations, runIndex>>

\* File::open(Path::new(&apk_path)).unwrap()
OpenApk ==
  /\ pc = "open"
  /\ \E r \in OpenResults :
       /\ pc' = AfterOpen(r)
       /\ result' = IF r = "ok" THEN result ELSE r
  /\ calls' = Append(calls, "open")
  /\ UNCHANGED <<releases, items, selected, last_selected, in_progress,
                 lastKey, nextStart, nextCount,
                 selBefore, unselFrom, recent, activations, runIndex>>

\* connection.send(None, &mut input, "/data/local/tmp/app.apk")
Send ==
  /\ pc = "send"
  /\ \E r \in SendResults :
       /\ pc' = AfterSend(r)
       /\ result' = IF r = "ok" THEN result ELSE r
  /\ calls' = Append(calls, "push")
  /\ UNCHANGED <<releases, items, selected, last_selected, in_progress,
                 lastKey, nextStart, nextCount,
                 selBefore, unselFrom, recent, activations, runIndex>>

\* connection.shell_command(&None, vec!["pm", "install", "-r", ..])
Install ==
  /\ pc = "install"
  /\ \E r \in InstallResults :
       /\ in_progress' = AfterInstall(r, in_progress)
       /\ result' = IF r = "ok" THEN "install_ok" ELSE r
  /\ pc' = "draw"
  /\ calls' = Append(calls, "install")
  /\ UNCHANGED <<releases, items, selected, last_selected,
                 lastKey, nextStart, nextCount,
                 selBefore, unselFrom, recent, activations, runIndex>>

\* ---------------------------------------------------------- specification
Next ==
  \/ draw
  \/ DrawError
  \/ ReadError
  \/ Quit
  \/ unselect
  \/ next
  \/ previous
  \/ flip_status
  \/ go_top
  \/ go_bottom
  \/ Ignored
  \/ Resolve
  \/ download_asset
  \/ Connect
  \/ OpenApk
  \/ Send
  \/ Install

Spec == Init /\ [][Next]_vars


\* ------------------------------------------------------- claim vocabulary
PipelinePcs == {"download", "connect", "open", "send", "install"}

\* The order in which one run calls its collaborators.
PipelineOrder == <<"download", "connect", "open", "push", "install">>

\* Results with which a pipeline run comes to an end without a panic.
RunOutcomes == {"no_apk", "transport_err", "push_err", "install_err",
                "install_ok"}

\* Every way a pipeline stage can fail.
StageFailures == {"transport_err", "create_err", "write_err", "connect_err",
                  "open_err", "push_err", "install_err"}

IsPrefix(s, t) == Len(s) <= Len(t) /\ SubSeq(t, 1, Len(s)) = s

InstalledIdx == { i \in 0..(ItemsLen - 1) : ItemAt(i).status = "Installed" }

\* A pipeline run has been started in the current loop iteration.
RunStarted == pc \in PipelinePcs \/ result # "none"

\* C1: after any pipeline run, whatever its outcome, the item that triggered
\* the run has status Open (Idle) and in_progress is None.
C1_RunEndsIdleAndCleared ==
  (pc = "draw" /\ result \in RunOutcomes) =>
    (ItemAt(runIndex).status = "Open" /\ in_progress = NoneIdx)

\* C2: at most one item has status Installed (InProgress); in_progress is
\* Some exactly when such an item exists, and then it is that item's index.
C2_OnePendingItem ==
  /\ Cardinality(InstalledIdx) <= 1
  /\ (in_progress # NoneIdx) <=> (InstalledIdx # {})
  /\ in_progress # NoneIdx => InstalledIdx = {in_progress}

\* C3: while in_progress is Some(i), an activate with the cursor on another
\* index j is rejected: in_progress stays Some(i), item j keeps its status.
C3_ActivateRejectedWhilePending ==
  [][(/\ flip_status
      /\ in_progress # NoneIdx
      /\ selected # NoneIdx
      /\ selected # in_progress)
     => (in_progress' = in_progress /\ items' = items)]_vars

\* C4: no automatic retries: every pipeline run is started by an activate
\* issued in the same loop iteration; no other input event starts a run.
C4_RunsOnlyOnActivate == RunStarted => lastKey = "activate"

\* C5: within one run the stages go download, (connect, open,) push,
\* install, and the run stops at the first failure: after a failed download
\* nothing but the download was called, after a failed push no install
\* command was issued.
C5_StagesInOrderStopAtFailure ==
  /\ IsPrefix(calls, PipelineOrder)
  /\ result \in {"transport_err", "create_err", "write_err"}
       => calls = <<"download">>
  /\ result = "push_err" => calls = <<"download", "connect", "open", "push">>
  /\ pc = "install" => calls = <<"download", "connect", "open", "push">>

C5_Witness ==
  /\ result = "push_err"
  /\ pc = "draw"
  /\ calls = <<"download", "connect", "open", "push">>

\* C6: a run on an item whose asset_id is -1 ends with the no-apk message
\* and makes no registry call and no device call.
C6_NoAssetNoCalls ==
  /\ (pc \in PipelinePcs \/ calls # <<>>)
       => ItemAt(runIndex).asset_id # NoAsset
  /\ result = "no_apk"
       => (calls = <<>> /\ ItemAt(runIndex).asset_id = NoAsset)
  /\ (/\ pc \in {"draw", "read"}
      /\ lastKey # "none"
      /\ in_progress # NoneIdx
      /\ ItemAt(in_progress).asset_id = NoAsset)
       => (result = "no_apk" /\ calls = <<>> /\ runIndex = in_progress)

C6_Witness ==
  /\ result = "no_apk"
  /\ pc = "draw"
  /\ lastKey = "activate"
  /\ ItemAt(runIndex).asset_id = NoAsset

\* C7: every pipeline-stage failure is non-fatal: the control loop keeps
\* running and the affected item is back at Open (Idle).
C7_StageFailuresNonFatal ==
  result \in StageFailures =>
    (pc # "panicked" /\ ItemAt(runIndex).status = "Open")

\* C7, the fatality alone: no stage failure ends the process.
C7_StageFailuresKeepLoopRunning ==
  result \in StageFailures => pc # "panicked"

\* C8: on a list of any length, zero included, the cursor is None or a
\* valid index into items.
C8_CursorValid ==
  selected = NoneIdx \/ (0 <= selected /\ selected < ItemsLen)

\* C9: on an empty list go_top, go_bottom, next and previous are safe
\* no-ops: no panic, no underflow, the cursor stays None.
C9_EmptyListNoOps ==
  [][(ItemsLen = 0 /\ (go_top \/ go_bottom \/ next \/ previous))
     => (selected' = NoneIdx /\ pc' # "panicked")]_vars

\* C10: on a non-empty list of length n, n next() calls in a row bring the
\* cursor back to the index it started from.
C10_NextWrapsAround ==
  (ItemsLen > 0 /\ nextCount = ItemsLen) => selected = nextStart

C10_Witness ==
  /\ ItemsLen = 2
  /\ nextCount = 2
  /\ nextStart = 1
  /\ selected = 1
  /\ pc = "read"

\* C11: with the cursor set on a non-empty list of length len, previous()
\* from index 0 selects len - 1 and from any other index i selects i - 1.
C11_PreviousStepsBackOrWraps ==
  (lastKey = "previous" /\ selBefore # NoneIdx /\ ItemsLen > 0) =>
    selected = (IF selBefore = 0 THEN ItemsLen - 1 ELSE selBefore - 1)

C11_Witness ==
  /\ lastKey = "previous"
  /\ ItemsLen = 2
  /\ selBefore = 0
  /\ selected = 1
  /\ pc = "resolve"

\* C12: unselect() with the cursor at i clears the cursor and stores i in
\* last_selected; a next() that follows it immediately selects i again.
C12_UnselectThenNextResumes ==
  /\ (lastKey = "unselect" /\ selBefore # NoneIdx)
       => (selected = NoneIdx /\ last_selected = selBefore)
  /\ (lastKey = "next" /\ unselFrom # NoneIdx) => selected = unselFrom

C12_Witness ==
  /\ lastKey = "next"
  /\ unselFrom = 1
  /\ selBefore = NoneIdx
  /\ selected = 1
  /\ pc = "resolve"

\* C13: whenever the cursor is unset, also after several unselect() in a
\* row, next() and previous() select the index that was selected most
\* recently, or 0 if no item was ever selected.
C13_ResumeAtMostRecentSelection ==
  (pc = "resolve" /\ lastKey \in {"next", "previous"} /\ selBefore = NoneIdx)
    => selected = (IF recent = NoneIdx THEN 0 ELSE recent)

\* The steps that take an input event off the terminal.
NavStep == next \/ previous \/ unselect \/ go_top \/ go_bottom

InputStep == NavStep \/ flip_status \/ Ignored \/ Quit \/ ReadError

\* A pipeline run is in flight: started, and no terminal outcome yet.
InFlight == pc \in PipelinePcs

\* C14: while a pipeline run is in flight the control loop still accepts
\* navigation input (next, previous, unselect, go_top, go_bottom act on the
\* cursor) and rejects activate.
C14_NavigationDuringRun ==
  InFlight =>
    /\ ENABLED NavStep
    /\ ~ ENABLED (flip_status /\ (in_progress' # in_progress \/ items' # items))

\* C15: at most one pipeline run is in flight at any time, and user input
\* cannot abort a started run: once the download has begun, no input event
\* is taken and the run ends only with a stage failing or with the install
\* command returning.
C15_OneRunNoAbort ==
  /\ [](InFlight =>
          /\ runIndex = in_progress
          /\ Cardinality({k \in DOMAIN calls : calls[k] = "download"}) <= 1
          /\ ~ ENABLED InputStep)
  /\ [][InFlight =>
          /\ lastKey' = lastKey
          /\ runIndex' = runIndex
          /\ (pc' \in PipelinePcs
                \/ result' \in StageFailures \cup {"install_ok"})]_vars

C15_Witness ==
  /\ pc = "install"
  /\ lastKey = "activate"
  /\ runIndex = 1
  /\ in_progress = 1

\* s ends with suffix, stated as a concatenation.
HasSuffix(s, suffix) ==
  \E n \in 0..Len(s) : s = SubSeq(s, 1, n) \o suffix

\* C16: items holds one item per release, in catalog order; an item's
\* asset_id is the id of the first asset of its release whose name ends in
\* ".apk", and -1 exactly when the release has no such asset; every status
\* starts as Open.
C16_FirstApkAssetResolved ==
  /\ Len(items) = Len(releases)
  /\ \A k \in 1..Len(releases) :
       LET assets == releases[k]
           apks == { j \in 1..Len(assets) :
                       HasSuffix(assets[j].name, ApkSuffix) }
       IN /\ (items[k].asset_id = NoAsset) <=> (apks = {})
          /\ \A j \in apks :
               (\A m \in apks : j <= m) => items[k].asset_id = assets[j].id
  /\ lastKey = "none" => \A k \in 1..Len(items) : items[k].status = "Open"

C16_Witness ==
  /\ lastKey = "none"
  /\ pc = "read"
  /\ Len(items) = 2
  /\ items[1].asset_id = 5
  /\ items[2].asset_id = NoAsset

C18_PendingSlotWrites ==
  /\ [][in_progress' # in_progress =>
          \/ (flip_status /\ selected # NoneIdx /\ in_progress' = selected)
          \/ (Install /\ in_progress' = NoneIdx)]_vars
  /\ [][(flip_status /\ selected # NoneIdx) => in_progress' = selected]_vars
  /\ [][Install => in_progress' = NoneIdx]_vars

C18_Witness ==
  /\ result = "install_err"
  /\ pc = "draw"
  /\ in_progress = NoneIdx
  /\ runIndex = 1

====
